---------------------------- MODULE Spec2Model ----------------------------
(***************************************************************************)
(* Model of datasets/pyscripts/duration_calculator.py: the phoneme scan of *)
(* cal_duration_by_tg, the vocabulary of dump_subset_metadata and the      *)
(* driver main.                                                            *)
(*                                                                         *)
(* Times of a TextGrid are integers counting 0.002 s (every time of the    *)
(* model is a multiple of 2 ms, so that round(x, 2) never meets a tie);    *)
(* durations stored in idx2duration are integers counting 0.01 s.          *)
(***************************************************************************)
EXTENDS Integers, Sequences, FiniteSets, TLC

VARIABLES
    retain_stress,       \* argument retain_stress
    text_grids,          \* the .TextGrid files on disk: path -> <<word tier, phoneme tier>>
    tg_file_list,        \* argument tg_file_list of cal_duration_by_tg / local of main
    idx2text,            \* dict: utterance id -> list of tokens
    idx2duration,        \* dict: utterance id -> list of durations (0.01 s)
    word_boundary_dict,  \* local of cal_duration_by_tg, per file
    file_i,              \* number of files of tg_file_list already taken by the for loop
    phn_i,               \* number of phonemes of the current file already taken
    phn2entry,           \* history: phn2entry[i] = index of the entry phoneme i went into
    dataset_name,        \* argument dataset_name of main
    ncpu,                \* argument ncpu of main
    subset_name,         \* argument subset_name of main / dump_subset_metadata
    func_args,           \* local of main: the chunks handed to the pool
    text_duration_results, \* local of main: result of each chunk, or NotDone
    idx2wav,             \* the idx2wav file of each subset: subset -> utterance ids, in order
    written,             \* the metadata files written so far: path -> content
    pc                   \* position in the code

vars == <<retain_stress, text_grids, tg_file_list, idx2text, idx2duration,
          word_boundary_dict, file_i, phn_i, phn2entry, dataset_name, ncpu,
          subset_name, func_args, text_duration_results, idx2wav,
          written, pc>>

----------------------------------------------------------------------------
(* Bounds of the model *)

\* longest phoneme tier of a file of the scan specification
MaxPhns == 3
\* longest word tier of a file of the scan specification
MaxWords == 2
\* most .TextGrid files on disk in the specification of main
MaxFiles == 3
\* largest ncpu in the specification of main
MaxCpu == 2
\* longest token sequence of an utterance in the vocabulary specification
MaxTokens == 2

----------------------------------------------------------------------------
(* Generic helpers *)

BoundedSeq(S, n) == UNION {[1..k -> S] : k \in 0..n}

RECURSIVE SumSeq(_)
SumSeq(s) == IF s = <<>> THEN 0 ELSE Head(s) + SumSeq(Tail(s))

\* the empty dict {}
EmptyDict == [k \in {} |-> <<>>]

\* d[k] = v of a Python dict (insertion or overwrite)
DictSet(d, k, v) == [x \in (DOMAIN d) \cup {k} |-> IF x = k THEN v ELSE d[x]]

\* d.pop(k)
DictPop(d, k) == [x \in (DOMAIN d) \ {k} |-> d[x]]

----------------------------------------------------------------------------
(* TextGrid inputs *)

\* an interval of a tier is [mark, minTime, maxTime]; a tier is given to the
\* model as a sequence of <<mark, length>> laid end to end from time 0
RECURSIVE EndTime(_, _)
EndTime(ivs, i) == IF i = 0 THEN 0 ELSE EndTime(ivs, i - 1) + ivs[i][2]

MkTier(ivs) ==
    [i \in 1..Len(ivs) |->
        [mark |-> ivs[i][1], minTime |-> EndTime(ivs, i - 1), maxTime |-> EndTime(ivs, i)]]

\* phoneme intervals of the scan specification: 0.016 s and 0.008 s long
PhnAlphabet ==
    {<<"n", 8>>, <<"AE1", 4>>, <<"spn", 4>>, <<"", 4>>, <<"sp", 8>>, <<"sil", 8>>}

\* word intervals of the scan specification
WordAlphabet == {<<"hi", 8>>, <<"", 4>>, <<"sp", 8>>}

\* a path is <<directory under TextGrid/, basename split at its dots>>
ScanPath == <<"train", <<"a", "TextGrid">>>>

----------------------------------------------------------------------------
(* cal_duration_by_tg, the pure parts *)

\* round(x, 2) of a time x counted in 0.002 s, as a count of 0.01 s
Round2(t) == (2 * t + 5) \div 10

SilenceMarks == {"sp", "", "sil"}

\* os.path.basename(tg_file).split('.')[0]
FileName(tg_file) == Head(tg_file[2])

\* tg.TextGrid.fromFile(tg_file): tiers[0] is the word tier, tiers[1] the phoneme tier
TextGridFromFile(tg_file) == text_grids[tg_file]

\* the dict comprehension of lines 126-127: a later word with the same rounded
\* end time overwrites the entry of an earlier one
WordBoundaryDict(words) ==
    LET keys == {Round2(words[i].maxTime) : i \in DOMAIN words}
        last(k) == CHOOSE i \in DOMAIN words :
                      /\ Round2(words[i].maxTime) = k
                      /\ \A j \in DOMAIN words : Round2(words[j].maxTime) = k => j <= i
    IN  [k \in keys |-> words[last(k)].mark \notin SilenceMarks]

PhnDuration(phn) == Round2(phn.maxTime - phn.minTime)

PhnBoundary(phn) == Round2(phn.maxTime)

\* phn.mark[-1].isdigit(), for the marks of the model
LastIsDigit(mark) == mark \in {"AE1", "AE0", "spn1"}

\* phn.mark[:-1], for the marks of the model
DropLast(mark) ==
    CASE mark = "AE1" -> "AE"
      [] mark = "AE0" -> "AE"
      [] mark = "spn1" -> "spn"
      [] mark = "spn" -> "sp"
      [] mark = "n" -> ""
      [] mark = "sp" -> "s"
      [] mark = "sil" -> "si"
      [] OTHER -> mark

\* lines 135-140: the token of a non-silence phoneme
PhnToken(mark, retain) ==
    LET phn_token == IF ~retain /\ LastIsDigit(mark) THEN DropLast(mark) ELSE mark
    IN  IF phn_token # "spn" THEN phn_token ELSE "<unk>"

\* a non-silence phoneme that merges into an identical previous token
AppendNonSilenceMerging(text, dur, phn, retain) ==
    IF Len(text) > 0 /\ text[Len(text)] = PhnToken(phn.mark, retain)
    THEN <<text, [dur EXCEPT ![Len(dur)] = @ + PhnDuration(phn)]>>
    ELSE <<Append(text, PhnToken(phn.mark, retain)), Append(dur, PhnDuration(phn))>>

\* lines 140-141: a non-silence phoneme appends its token and its duration
AppendNonSilence(text, dur, phn, retain) ==
    <<Append(text, PhnToken(phn.mark, retain)), Append(dur, PhnDuration(phn))>>

\* a silence phoneme that never merges
HandleSilenceNoMerge(text, dur, phn) ==
    <<Append(text, "<space>"), Append(dur, PhnDuration(phn))>>

\* a silence phoneme whose merge overwrites the duration (= for +=)
HandleSilenceOverwrite(text, dur, phn) ==
    IF Len(text) = 0 \/ text[Len(text)] # "<space>"
    THEN <<Append(text, "<space>"), Append(dur, PhnDuration(phn))>>
    ELSE <<text, [dur EXCEPT ![Len(dur)] = PhnDuration(phn)]>>

\* lines 145-150: a silence phoneme appends a new <space> or merges into the last one
HandleSilence(text, dur, phn) ==
    IF Len(text) = 0 \/ text[Len(text)] # "<space>"
    THEN <<Append(text, "<space>"), Append(dur, PhnDuration(phn))>>
    ELSE <<text, [dur EXCEPT ![Len(dur)] = @ + PhnDuration(phn)]>>

\* lines 130-150: the phoneme itself
HandlePhoneme(text, dur, phn, retain) ==
    IF phn.mark \notin SilenceMarks
    THEN AppendNonSilence(text, dur, phn, retain)
    ELSE HandleSilence(text, dur, phn)

\* line 152: the condition of the word-boundary insertion
IsWordBoundary(phn, wbd) ==
    PhnBoundary(phn) \in DOMAIN wbd /\ wbd[PhnBoundary(phn)]

\* a word-boundary insertion that forgets the duration entry
InsertWordBoundaryTextOnly(text, dur, phn, wbd) ==
    IF IsWordBoundary(phn, wbd)
    THEN <<Append(text, "<space>"), dur>>
    ELSE <<text, dur>>

\* lines 152-154: the word-boundary <space> of duration round(0, 2)
InsertWordBoundary(text, dur, phn, wbd) ==
    IF IsWordBoundary(phn, wbd)
    THEN <<Append(text, "<space>"), Append(dur, 0)>>
    ELSE <<text, dur>>

\* a discard that looks at the first token only
OnlySpaceFirstToken(text) == Len(text) >= 1 /\ text[1] = "<space>"

\* line 157: the utterance holds a single <space>
OnlySpace(text) == Len(text) = 1 /\ text[1] = "<space>"

----------------------------------------------------------------------------
(* cal_duration_by_tg, step by step *)

CurFile == tg_file_list[file_i]

CurName == FileName(CurFile)

CurPhns == TextGridFromFile(CurFile)[2]

\* the variables only main and dump_subset_metadata use
mainVars == <<dataset_name, ncpu, subset_name, func_args, text_duration_results,
              idx2wav, written>>

\* lines 121-127: the for loop takes the next file
ScanNextFile ==
    /\ pc = "for_file"
    /\ file_i < Len(tg_file_list)
    /\ LET tg_file == tg_file_list[file_i + 1]
           file_name == FileName(tg_file)
       IN  /\ idx2text' = DictSet(idx2text, file_name, <<>>)
           /\ idx2duration' = DictSet(idx2duration, file_name, <<>>)
           /\ word_boundary_dict' = WordBoundaryDict(TextGridFromFile(tg_file)[1])
    /\ file_i' = file_i + 1
    /\ phn_i' = 0
    /\ phn2entry' = <<>>
    /\ pc' = "for_phn"
    /\ UNCHANGED <<retain_stress, text_grids, tg_file_list, mainVars>>

\* lines 128-150: the inner loop takes the next phoneme and appends or merges it
ScanPhoneme ==
    /\ pc = "for_phn"
    /\ phn_i < Len(CurPhns)
    /\ LET phn == CurPhns[phn_i + 1]
           res == HandlePhoneme(idx2text[CurName], idx2duration[CurName], phn, retain_stress)
       IN  /\ idx2text' = [idx2text EXCEPT ![CurName] = res[1]]
           /\ idx2duration' = [idx2duration EXCEPT ![CurName] = res[2]]
           /\ phn2entry' = Append(phn2entry, Len(res[1]))
    /\ phn_i' = phn_i + 1
    /\ pc' = "boundary"
    /\ UNCHANGED <<retain_stress, text_grids, tg_file_list, word_boundary_dict, file_i, mainVars>>

\* lines 152-154: the word-boundary insertion after the phoneme
ScanBoundary ==
    /\ pc = "boundary"
    /\ LET phn == CurPhns[phn_i]
           res == InsertWordBoundary(idx2text[CurName], idx2duration[CurName], phn,
                                     word_boundary_dict)
       IN  /\ idx2text' = [idx2text EXCEPT ![CurName] = res[1]]
           /\ idx2duration' = [idx2duration EXCEPT ![CurName] = res[2]]
    /\ pc' = "for_phn"
    /\ UNCHANGED <<retain_stress, text_grids, tg_file_list, word_boundary_dict, file_i,
                   phn_i, phn2entry, mainVars>>

\* lines 156-159: the phoneme tier is exhausted; a lone <space> is removed
ScanDiscard ==
    /\ pc = "for_phn"
    /\ phn_i = Len(CurPhns)
    /\ IF OnlySpace(idx2text[CurName])
       THEN /\ idx2text' = DictPop(idx2text, CurName)
            /\ idx2duration' = DictPop(idx2duration, CurName)
       ELSE UNCHANGED <<idx2text, idx2duration>>
    /\ pc' = "for_file"
    /\ UNCHANGED <<retain_stress, text_grids, tg_file_list, word_boundary_dict, file_i,
                   phn_i, phn2entry, mainVars>>

\* line 161: the file list is exhausted
ScanReturn ==
    /\ pc = "for_file"
    /\ file_i = Len(tg_file_list)
    /\ pc' = "return"
    /\ UNCHANGED <<retain_stress, text_grids, tg_file_list, idx2text, idx2duration,
                   word_boundary_dict, file_i, phn_i, phn2entry, mainVars>>

NotDone == "NotDone"

\* line 120, for a list of one file with any tiers within the bounds
InitScan ==
    /\ retain_stress \in BOOLEAN
    /\ \E ws \in BoundedSeq(WordAlphabet, MaxWords), ps \in BoundedSeq(PhnAlphabet, MaxPhns) :
          text_grids = [p \in {ScanPath} |-> <<MkTier(ws), MkTier(ps)>>]
    /\ tg_file_list = <<ScanPath>>
    /\ idx2text = EmptyDict
    /\ idx2duration = EmptyDict
    /\ word_boundary_dict = EmptyDict
    /\ file_i = 0
    /\ phn_i = 0
    /\ phn2entry = <<>>
    /\ dataset_name = "ljspeech"
    /\ ncpu = 1
    /\ subset_name = "train"
    /\ func_args = <<>>
    /\ text_duration_results = <<>>
    /\ idx2wav = EmptyDict
    /\ written = EmptyDict
    /\ pc = "for_file"

NextScan == ScanNextFile \/ ScanPhoneme \/ ScanBoundary \/ ScanDiscard \/ ScanReturn

SpecScan == InitScan /\ [][NextScan]_vars

----------------------------------------------------------------------------
(* cal_duration_by_tg as a function of its file list *)

\* lines 128-154 for the first k phonemes of a tier
RECURSIVE ScanPhonemes(_, _, _, _)
ScanPhonemes(phns, k, wbd, retain) ==
    IF k = 0 THEN <<<<>>, <<>>>>
    ELSE LET before == ScanPhonemes(phns, k - 1, wbd, retain)
             handled == HandlePhoneme(before[1], before[2], phns[k], retain)
         IN  InsertWordBoundary(handled[1], handled[2], phns[k], wbd)

\* lines 123-154 for one file: its token list and its duration list
ScanFile(tg_file, retain) ==
    LET text_grid == TextGridFromFile(tg_file)
    IN  ScanPhonemes(text_grid[2], Len(text_grid[2]), WordBoundaryDict(text_grid[1]), retain)

\* lines 121-159 for the first k files of the list
RECURSIVE CalDurationLoop(_, _, _)
CalDurationLoop(files, k, retain) ==
    IF k = 0 THEN <<EmptyDict, EmptyDict>>
    ELSE LET before == CalDurationLoop(files, k - 1, retain)
             file_name == FileName(files[k])
             scanned == ScanFile(files[k], retain)
         IN  IF OnlySpace(scanned[1])
             THEN <<DictPop(before[1], file_name), DictPop(before[2], file_name)>>
             ELSE <<DictSet(before[1], file_name, scanned[1]),
                    DictSet(before[2], file_name, scanned[2])>>

\* lines 120-161
CalDurationByTg(files, retain) == CalDurationLoop(files, Len(files), retain)

----------------------------------------------------------------------------
(* dump_subset_metadata *)

RECURSIVE ConcatAll(_)
ConcatAll(ss) == IF ss = <<>> THEN <<>> ELSE Head(ss) \o ConcatAll(Tail(ss))

InSeq(x, s) == \E i \in DOMAIN s : s[i] = x

\* load_idx2data_file(.../subset_name/idx2wav).keys(), line 64
LoadIdx2WavKeys(subset) == IF subset \in DOMAIN idx2wav THEN idx2wav[subset] ELSE <<>>

\* the keys of the dict comprehensions of lines 65-66, in insertion order
SubsetKeys(indices, d) ==
    LET RECURSIVE keep(_)
        keep(k) == IF k = 0 THEN <<>>
                   ELSE IF indices[k] \in DOMAIN d THEN Append(keep(k - 1), indices[k])
                        ELSE keep(k - 1)
    IN  keep(Len(indices))

\* lines 82-84: the token sequences of the subset, concatenated
SubsetPhns(keys, d) == ConcatAll([i \in 1..Len(keys) |-> d[keys[i]]])

\* Counter(subset_phns).items(): <<token, count>> in the order of first occurrence
CounterItems(phns) ==
    LET RECURSIVE firsts(_)
        firsts(k) == IF k = 0 THEN <<>>
                     ELSE IF InSeq(phns[k], firsts(k - 1)) THEN firsts(k - 1)
                          ELSE Append(firsts(k - 1), phns[k])
        toks == firsts(Len(phns))
    IN  [i \in 1..Len(toks) |->
            <<toks[i], Cardinality({j \in DOMAIN phns : phns[j] = toks[i]})>>]

\* an ascending sort whose result is reversed: equal counts end in reverse order
SortedByFreqReversed(items) ==
    LET RECURSIVE asc(_)
        asc(k) == IF k = 0 THEN <<>>
                  ELSE LET prev == asc(k - 1)
                           pos == Cardinality({i \in DOMAIN prev : prev[i][2] <= items[k][2]})
                       IN  SubSeq(prev, 1, pos) \o <<items[k]>> \o SubSeq(prev, pos + 1, Len(prev))
        up == asc(Len(items))
    IN  [i \in 1..Len(up) |-> up[Len(up) + 1 - i]]

\* sorted(items, key=lambda x: x[1], reverse=True), line 86: a stable sort
SortedByFreq(items) ==
    LET RECURSIVE desc(_)
        desc(k) == IF k = 0 THEN <<>>
                   ELSE LET prev == desc(k - 1)
                            pos == Cardinality({i \in DOMAIN prev : prev[i][2] >= items[k][2]})
                        IN  SubSeq(prev, 1, pos) \o <<items[k]>> \o SubSeq(prev, pos + 1, Len(prev))
    IN  desc(Len(items))

\* a remove that is forgotten
RemoveUnkNever(phns) == phns

\* lines 88-89: subset_phns.remove('<unk>') when it is there (the first occurrence)
RemoveUnk(phns) ==
    IF InSeq("<unk>", phns)
    THEN LET at == CHOOSE i \in DOMAIN phns :
                      phns[i] = "<unk>" /\ \A j \in 1..(i - 1) : phns[j] # "<unk>"
         IN  SubSeq(phns, 1, at - 1) \o SubSeq(phns, at + 1, Len(phns))
    ELSE phns

\* lines 82-91: the vocabulary of the subset
SubsetPhnVocab(keys, d) ==
    LET phn2freq == SortedByFreq(CounterItems(SubsetPhns(keys, d)))
        subset_phns == [i \in 1..Len(phn2freq) |-> phn2freq[i][1]]
    IN  <<"<blank>">> \o RemoveUnk(subset_phns) \o <<"<unk>", "<sos/eos>">>

\* line 67: subset_path under save_path
SubsetPath(subset, retain) == <<subset, IF retain THEN "stress" ELSE "no-stress">>

\* lines 64-102: the four files written for a subset
DumpSubsetMetadata(subset, retain, i2t, i2d) ==
    LET subset_indices == LoadIdx2WavKeys(subset)
        text_keys == SubsetKeys(subset_indices, i2t)
        duration_keys == SubsetKeys(subset_indices, i2d)
        subset_path == SubsetPath(subset, retain)
    IN  [f \in {<<subset_path, n>> : n \in {"idx2text", "idx2text_len", "vocab", "idx2duration"}} |->
            CASE f[2] = "idx2text" ->
                    [i \in 1..Len(text_keys) |-> <<text_keys[i], i2t[text_keys[i]]>>]
              [] f[2] = "idx2text_len" ->
                    [i \in 1..Len(text_keys) |-> <<text_keys[i], Len(i2t[text_keys[i]])>>]
              [] f[2] = "vocab" -> SubsetPhnVocab(text_keys, i2t)
              [] f[2] = "idx2duration" ->
                    [i \in 1..Len(duration_keys) |-> <<duration_keys[i], i2d[duration_keys[i]]>>]]

\* writing files: a later file of the same path replaces the earlier one
DictUpdate(d, e) ==
    [x \in (DOMAIN d) \cup (DOMAIN e) |-> IF x \in DOMAIN e THEN e[x] ELSE d[x]]

----------------------------------------------------------------------------
(* main *)

None == "None"

\* a check that lets an unknown dataset through
DatasetKnownLoose(name) == name \in {"ljspeech", "libritts", "librispeech", "vctk"}

\* line 185
DatasetKnown(name) == name \in {"ljspeech", "libritts", "librispeech"}

\* the .TextGrid files under textgrid_path (lines 193-197), as a set
FilesUnder(subset) ==
    {p \in DOMAIN text_grids : subset = None \/ p[1] = subset}

\* the lists search_file_in_subfolder may return: the files found, in any order
SearchFileInSubfolder(subset) ==
    LET found == FilesUnder(subset)
        n == Cardinality(found)
    IN  {l \in [1..n -> found] : \A i, j \in 1..n : i # j => l[i] # l[j]}

\* chunks that start one file too late (a 1-based offset in a 0-based slice)
FuncArgsShifted(files, n) ==
    [c \in 1..n |->
        LET cnt == IF Len(files) > c THEN (Len(files) - c - 1) \div n + 1 ELSE 0
        IN  [k \in 1..cnt |-> files[c + 1 + (k - 1) * n]]]

\* line 200: [tg_file_list[i::ncpu] for i in range(ncpu)]; chunk c is i = c - 1
FuncArgs(files, n) ==
    [c \in 1..n |->
        LET i == c - 1
            cnt == IF Len(files) > i THEN (Len(files) - i - 1) \div n + 1 ELSE 0
        IN  [k \in 1..cnt |-> files[i + 1 + (k - 1) * n]]]

\* lines 208-211: update with the first k results, in order
RECURSIVE Gather(_, _)
Gather(results, k) ==
    IF k = 0 THEN <<EmptyDict, EmptyDict>>
    ELSE LET before == Gather(results, k - 1)
         IN  <<DictUpdate(before[1], results[k][1]), DictUpdate(before[2], results[k][2])>>

\* the variables only the step-by-step scan uses
scanVars == <<word_boundary_dict, file_i, phn_i, phn2entry>>

\* line 185: the assertion on dataset_name
MainAssert ==
    /\ pc = "main"
    /\ pc' = IF DatasetKnown(dataset_name) THEN "search" ELSE "AssertionError"
    /\ UNCHANGED <<retain_stress, text_grids, tg_file_list, idx2text, idx2duration, scanVars,
                   dataset_name, ncpu, subset_name, func_args, text_duration_results,
                   idx2wav, written>>

\* lines 188-201: the search, the RuntimeError of an empty list, the chunks
MainSearch ==
    /\ pc = "search"
    /\ \E found \in SearchFileInSubfolder(subset_name) :
          /\ tg_file_list' = found
          /\ IF Len(found) = 0
             THEN /\ pc' = "RuntimeError"
                  /\ UNCHANGED <<func_args, text_duration_results>>
             ELSE /\ func_args' = FuncArgs(found, ncpu)
                  /\ text_duration_results' = [c \in 1..ncpu |-> NotDone]
                  /\ pc' = "pool"
    /\ UNCHANGED <<retain_stress, text_grids, idx2text, idx2duration, scanVars,
                   dataset_name, ncpu, subset_name, idx2wav, written>>

\* lines 204-205: a worker of the pool runs cal_duration_by_tg on chunk c
MainWorker(c) ==
    /\ pc = "pool"
    /\ text_duration_results[c] = NotDone
    /\ text_duration_results' =
          [text_duration_results EXCEPT ![c] = CalDurationByTg(func_args[c], retain_stress)]
    /\ UNCHANGED <<retain_stress, text_grids, tg_file_list, idx2text, idx2duration, scanVars,
                   dataset_name, ncpu, subset_name, func_args, idx2wav, written, pc>>

\* lines 208-211: executor.map has returned every result; they are gathered
MainGather ==
    /\ pc = "pool"
    /\ \A c \in 1..ncpu : text_duration_results[c] # NotDone
    /\ LET gathered == Gather(text_duration_results, ncpu)
       IN  /\ idx2text' = gathered[1]
           /\ idx2duration' = gathered[2]
    /\ pc' = "dump"
    /\ UNCHANGED <<retain_stress, text_grids, tg_file_list, scanVars, dataset_name, ncpu,
                   subset_name, func_args, text_duration_results, idx2wav, written>>

\* the subsets main dumps: os.listdir(textgrid_path), or subset_name (lines 216-222)
SubsetsToDump ==
    IF subset_name = None THEN {p[1] : p \in DOMAIN text_grids} ELSE {subset_name}

\* the files of every dump_subset_metadata call of a set of subsets
RECURSIVE DumpAll(_, _, _, _)
DumpAll(subsets, retain, i2t, i2d) ==
    IF subsets = {} THEN EmptyDict
    ELSE LET s == CHOOSE x \in subsets : TRUE
         IN  DictUpdate(DumpAll(subsets \ {s}, retain, i2t, i2d),
                        DumpSubsetMetadata(s, retain, i2t, i2d))

\* lines 214-222: dump_subset_metadata for every subset to dump (their files
\* are disjoint, so the order of os.listdir does not show)
MainDump ==
    /\ pc = "dump"
    /\ written' = DictUpdate(written,
                      DumpAll(SubsetsToDump, retain_stress, idx2text, idx2duration))
    /\ pc' = "done"
    /\ UNCHANGED <<retain_stress, text_grids, tg_file_list, idx2text, idx2duration, scanVars,
                   dataset_name, ncpu, subset_name, func_args, text_duration_results, idx2wav>>

\* the paths of the specification of main: a.TextGrid and a.v2.TextGrid have the
\* same file_name
MainPaths ==
    {<<"train", <<"a", "TextGrid">>>>, <<"train", <<"a", "v2", "TextGrid">>>>,
     <<"train", <<"b", "TextGrid">>>>, <<"dev", <<"c", "TextGrid">>>>}

\* the TextGrids of the specification of main: speech after a silence, silence
\* alone, a spoken noise
MainGrids ==
    {<<MkTier(<<<<"", 4>>, <<"hi", 8>>>>), MkTier(<<<<"", 4>>, <<"AE1", 8>>>>)>>,
     <<MkTier(<<<<"", 8>>>>), MkTier(<<<<"sil", 4>>, <<"sp", 4>>>>)>>,
     <<MkTier(<<<<"hi", 8>>>>), MkTier(<<<<"spn", 8>>>>)>>}

MainIdx2Wav == [s \in {"train", "dev"} |-> IF s = "train" THEN <<"a", "b">> ELSE <<"c">>]

\* the state at the call of main
InitMain ==
    /\ retain_stress \in BOOLEAN
    /\ dataset_name \in {"ljspeech", "libritts", "librispeech", "vctk"}
    /\ ncpu \in 1..MaxCpu
    /\ subset_name \in {None, "train", "dev"}
    /\ \E ps \in {q \in SUBSET MainPaths : Cardinality(q) <= MaxFiles} :
          text_grids \in [ps -> MainGrids]
    /\ idx2wav = MainIdx2Wav
    /\ tg_file_list = <<>>
    /\ func_args = <<>>
    /\ text_duration_results = <<>>
    /\ idx2text = EmptyDict
    /\ idx2duration = EmptyDict
    /\ word_boundary_dict = EmptyDict
    /\ file_i = 0
    /\ phn_i = 0
    /\ phn2entry = <<>>
    /\ written = EmptyDict
    /\ pc = "main"

NextMain ==
    \/ MainAssert
    \/ MainSearch
    \/ \E c \in 1..ncpu : MainWorker(c)
    \/ MainGather
    \/ MainDump

SpecMain == InitMain /\ [][NextMain]_vars

----------------------------------------------------------------------------
(* dump_subset_metadata on its own *)

\* the tokens cal_duration_by_tg produces in the model
VocabTokens == {"n", "AE", "<space>", "<unk>"}

VocabIds == {"a", "b", "c"}

\* the token sequences an utterance of the mappings can hold: any but a lone <space>
VocabTexts == {t \in BoundedSeq(VocabTokens, MaxTokens) : ~OnlySpace(t)}

\* lines 42-102 from any mappings over two utterances and any idx2wav list
InitVocab ==
    /\ retain_stress \in BOOLEAN
    /\ subset_name = "train"
    /\ \E ids \in SUBSET {"a", "b"} : idx2text \in [ids -> VocabTexts]
    /\ idx2duration = [id \in DOMAIN idx2text |-> [i \in 1..Len(idx2text[id]) |-> i]]
    /\ \E l \in BoundedSeq(VocabIds, Cardinality(VocabIds)) :
          /\ \A i, j \in DOMAIN l : i # j => l[i] # l[j]
          /\ idx2wav = [s \in {"train"} |-> l]
    /\ text_grids = EmptyDict
    /\ tg_file_list = <<>>
    /\ func_args = <<>>
    /\ text_duration_results = <<>>
    /\ dataset_name = "ljspeech"
    /\ ncpu = 1
    /\ word_boundary_dict = EmptyDict
    /\ file_i = 0
    /\ phn_i = 0
    /\ phn2entry = <<>>
    /\ written = EmptyDict
    /\ pc = "dump_subset_metadata"

\* lines 64-102
VocabDump ==
    /\ pc = "dump_subset_metadata"
    /\ written' = DictUpdate(written,
                      DumpSubsetMetadata(subset_name, retain_stress, idx2text, idx2duration))
    /\ pc' = "dumped"
    /\ UNCHANGED <<retain_stress, text_grids, tg_file_list, idx2text, idx2duration, scanVars,
                   dataset_name, ncpu, subset_name, func_args, text_duration_results, idx2wav>>

NextVocab == VocabDump

SpecVocab == InitVocab /\ [][NextVocab]_vars

----------------------------------------------------------------------------
(* Properties of the phoneme scan *)

\* the phonemes of the current file already appended or merged
NumHandled == Len(phn2entry)

Scanning == file_i > 0 /\ CurName \in DOMAIN idx2text /\ CurName \in DOMAIN idx2duration

IsSilence(i) == CurPhns[i].mark \in SilenceMarks

\* the word-boundary <space> was inserted after phoneme i
InsertedAfter(i) ==
    /\ IsWordBoundary(CurPhns[i], word_boundary_dict)
    /\ (i < NumHandled \/ pc # "boundary")

RECURSIVE SumPhnDurations(_, _)
SumPhnDurations(i, j) ==
    IF j < i THEN 0 ELSE PhnDuration(CurPhns[j]) + SumPhnDurations(i, j - 1)

\* C1: the two mappings have the same utterance ids, and for every id the token
\* sequence and the duration sequence have the same length, after every step of
\* the scan and at the return
C1_LengthInvariant ==
    /\ DOMAIN idx2text = DOMAIN idx2duration
    /\ \A id \in DOMAIN idx2text : Len(idx2text[id]) = Len(idx2duration[id])

\* C1 witness: a returned utterance in which a merge and a word-boundary insertion happened
C1_Witness ==
    /\ pc = "return"
    /\ Scanning
    /\ \E i \in 1..(NumHandled - 1) : phn2entry[i] = phn2entry[i + 1]
    /\ \E i \in 1..NumHandled : InsertedAfter(i)

\* phonemes i..j are a maximal run of silences with no word-boundary insertion
\* between two of them, among the phonemes handled so far
IsMaximalRun(i, j) ==
    /\ i <= j
    /\ \A k \in i..j : IsSilence(k)
    /\ \A k \in i..(j - 1) : ~InsertedAfter(k)
    /\ (i = 1 \/ ~IsSilence(i - 1) \/ InsertedAfter(i - 1))
    /\ (j = NumHandled \/ ~IsSilence(j + 1) \/ InsertedAfter(j))

\* C2: every maximal run of silence phonemes without a word-boundary insertion
\* inside it lies in exactly one entry, which is a <space> no other phoneme went
\* into and whose duration is the sum of the rounded durations of the run; two
\* silences separated by a non-silence phoneme lie in two different entries
C2_SilenceRunsMerge ==
    Scanning =>
        /\ \A i, j \in 1..NumHandled :
              IsMaximalRun(i, j) =>
                  LET k == phn2entry[i]
                  IN  /\ \A m \in 1..NumHandled : (phn2entry[m] = k) <=> (m \in i..j)
                      /\ idx2text[CurName][k] = "<space>"
                      /\ idx2duration[CurName][k] = SumPhnDurations(i, j)
        /\ \A i, j \in 1..NumHandled :
              (/\ i < j /\ IsSilence(i) /\ IsSilence(j)
               /\ \E m \in (i + 1)..(j - 1) : ~IsSilence(m))
                  => phn2entry[i] # phn2entry[j]

\* C2 witness: a returned utterance with three silences in a row merged into one
\* <space>, or with a silence, a non-silence and a silence
C2_Witness ==
    /\ pc = "return"
    /\ Scanning
    /\ \/ /\ NumHandled = 3
          /\ IsMaximalRun(2, 3)
          /\ phn2entry[2] = phn2entry[3]
          /\ idx2duration[CurName][phn2entry[2]] > PhnDuration(CurPhns[3])
       \/ /\ NumHandled = 3
          /\ IsSilence(1) /\ ~IsSilence(2) /\ IsSilence(3)

\* C3: after the word-boundary step of a phoneme whose end time is the end time of
\* a word whose mark is not a silence, the last entry is a new <space> of duration 0
C3_WordBoundaryInserted ==
    (/\ Scanning
     /\ pc = "for_phn"
     /\ NumHandled >= 1
     /\ \E w \in DOMAIN TextGridFromFile(CurFile)[1] :
           /\ TextGridFromFile(CurFile)[1][w].mark \notin SilenceMarks
           /\ TextGridFromFile(CurFile)[1][w].maxTime = CurPhns[NumHandled].maxTime)
        => /\ Len(idx2text[CurName]) = phn2entry[NumHandled] + 1
           /\ idx2text[CurName][Len(idx2text[CurName])] = "<space>"
           /\ idx2duration[CurName][Len(idx2duration[CurName])] = 0

\* C4: every non-silence phoneme has an entry of its own, holding its token and
\* its rounded duration, in the order of the phoneme tier; the entries that are
\* not <space> are exactly these
C4_NonSilenceRetained ==
    Scanning =>
        /\ \A i \in 1..NumHandled :
              ~IsSilence(i) =>
                  /\ \A j \in 1..NumHandled : j # i => phn2entry[j] # phn2entry[i]
                  /\ \A j \in 1..NumHandled : j < i => phn2entry[j] < phn2entry[i]
                  /\ idx2text[CurName][phn2entry[i]] = PhnToken(CurPhns[i].mark, retain_stress)
                  /\ idx2duration[CurName][phn2entry[i]] = PhnDuration(CurPhns[i])
        /\ Cardinality({k \in 1..Len(idx2text[CurName]) : idx2text[CurName][k] # "<space>"})
              = Cardinality({i \in 1..NumHandled : ~IsSilence(i)})

\* C4 witness: two consecutive phonemes with the same token, kept as two entries
C4_Witness ==
    /\ pc = "return"
    /\ Scanning
    /\ \E i \in 1..(NumHandled - 1) :
          /\ ~IsSilence(i) /\ ~IsSilence(i + 1)
          /\ PhnToken(CurPhns[i].mark, retain_stress) = PhnToken(CurPhns[i + 1].mark, retain_stress)
          /\ ~InsertedAfter(i)
          /\ phn2entry[i + 1] = phn2entry[i] + 1

\* C10: the durations of the utterance add up to the rounded durations of the
\* phonemes handled so far
C10_DurationSum ==
    Scanning => SumSeq(idx2duration[CurName]) = SumPhnDurations(1, NumHandled)

\* C10 witness: a silence merged into a <space> that a word boundary inserted
C10_Witness ==
    /\ Scanning
    /\ \E i \in 1..(NumHandled - 1) :
          /\ InsertedAfter(i)
          /\ IsSilence(i + 1)
          /\ phn2entry[i + 1] = phn2entry[i] + 1
          /\ idx2duration[CurName][phn2entry[i + 1]] > 0

----------------------------------------------------------------------------
(* Properties of cal_duration_by_tg on a chunk, and of main *)

ChunkDone(c) == c \in DOMAIN text_duration_results /\ text_duration_results[c] # NotDone

\* the last file of a chunk with the given utterance id
LastFileOf(chunk, id) ==
    chunk[CHOOSE k \in DOMAIN chunk :
              /\ FileName(chunk[k]) = id
              /\ \A j \in DOMAIN chunk : FileName(chunk[j]) = id => j <= k]

\* C5: in the mappings cal_duration_by_tg returns for a list of files, no id
\* maps to exactly <<"<space>">>: an id whose (last) file scans to exactly
\* <<"<space>">> is in neither mapping, and every other id is in both, with
\* the scanned sequences
C5_OnlySpaceDiscarded ==
    \A c \in 1..Len(text_duration_results) :
        ChunkDone(c) =>
            LET i2t == text_duration_results[c][1]
                i2d == text_duration_results[c][2]
                chunk == func_args[c]
                ids == {FileName(chunk[k]) : k \in DOMAIN chunk}
            IN  /\ DOMAIN i2t \subseteq ids
                /\ DOMAIN i2d \subseteq ids
                /\ \A id \in DOMAIN i2t : i2t[id] # <<"<space>">>
                /\ \A id \in ids :
                      LET scanned == ScanFile(LastFileOf(chunk, id), retain_stress)
                      IN  IF scanned[1] = <<"<space>">>
                          THEN id \notin DOMAIN i2t /\ id \notin DOMAIN i2d
                          ELSE /\ id \in DOMAIN i2t /\ id \in DOMAIN i2d
                               /\ i2t[id] = scanned[1]
                               /\ i2d[id] = scanned[2]

\* C5 witness: a chunk of two files with different ids, one discarded and one kept
C5_Witness ==
    \E c \in 1..Len(text_duration_results) :
        /\ ChunkDone(c)
        /\ Len(func_args[c]) = 2
        /\ FileName(func_args[c][1]) # FileName(func_args[c][2])
        /\ Cardinality(DOMAIN text_duration_results[c][1]) = 1
        /\ \E k \in 1..2 : ScanFile(func_args[c][k], retain_stress)[1] = <<"<space>">>

Gathered == pc \in {"dump", "done"}

DistinctFileNames(files) ==
    \A i, j \in DOMAIN files : i # j => FileName(files[i]) # FileName(files[j])

\* C7 as stated: for every file list and every ncpu, the gathered mappings of
\* the chunks equal the mappings of cal_duration_by_tg on the whole list
C7_PartitionAnyFiles ==
    Gathered => <<idx2text, idx2duration>> = CalDurationByTg(tg_file_list, retain_stress)

\* C7 amended: the same, for file lists whose files have pairwise different
\* utterance ids (the basename up to its first dot)
C7_PartitionDistinctIds ==
    (Gathered /\ DistinctFileNames(tg_file_list)) =>
        <<idx2text, idx2duration>> = CalDurationByTg(tg_file_list, retain_stress)

\* C7 witness: three files with different ids on two or more workers, one of
\* them discarded
C7_Witness ==
    /\ Gathered
    /\ DistinctFileNames(tg_file_list)
    /\ Len(tg_file_list) = 3
    /\ ncpu = 2
    /\ Cardinality(DOMAIN idx2text) = 2

NothingDone ==
    /\ func_args = <<>>
    /\ text_duration_results = <<>>
    /\ idx2text = EmptyDict
    /\ idx2duration = EmptyDict
    /\ written = EmptyDict

\* C8: with an unknown dataset_name main ends in the AssertionError with no
\* search, no worker and no file written; with no .TextGrid file found it ends
\* in the RuntimeError with no worker and no file written
C8_FailFast ==
    /\ dataset_name \notin {"ljspeech", "libritts", "librispeech"} =>
          /\ pc \in {"main", "AssertionError"}
          /\ tg_file_list = <<>>
          /\ NothingDone
    /\ pc = "AssertionError" => dataset_name \notin {"ljspeech", "libritts", "librispeech"}
    /\ (pc \notin {"main", "search", "AssertionError"} /\ FilesUnder(subset_name) = {}) =>
          /\ pc = "RuntimeError"
          /\ NothingDone
    /\ pc = "RuntimeError" => (tg_file_list = <<>> /\ FilesUnder(subset_name) = {})

\* C8 witness: the RuntimeError of a subset without files while another subset has some
C8_Witness ==
    /\ pc = "RuntimeError"
    /\ text_grids # EmptyDict

----------------------------------------------------------------------------
(* Properties of the vocabulary *)

VocabOf(subset) == written[<<SubsetPath(subset, retain_stress), "vocab">>]

VocabWritten(subset) == <<SubsetPath(subset, retain_stress), "vocab">> \in DOMAIN written

\* the tokens of the subset, concatenated in the order of its utterance-id list
TokensOfSubset(subset) ==
    LET ids == LoadIdx2WavKeys(subset)
        present == SelectSeq(ids, LAMBDA id : id \in DOMAIN idx2text)
    IN  ConcatAll([i \in 1..Len(present) |-> idx2text[present[i]]])

CountIn(tok, toks) == Cardinality({i \in DOMAIN toks : toks[i] = tok})

FirstIn(tok, toks) == CHOOSE i \in DOMAIN toks : toks[i] = tok /\ \A j \in 1..(i - 1) : toks[j] # tok

C9_VocabOrder ==
    VocabWritten(subset_name) =>
        LET vocab == VocabOf(subset_name)
            middle == SubSeq(vocab, 2, Len(vocab) - 2)
            toks == TokensOfSubset(subset_name)
        IN  /\ {middle[i] : i \in DOMAIN middle} = {toks[i] : i \in DOMAIN toks} \ {"<unk>"}
            /\ \A i, j \in DOMAIN middle :
                  i < j =>
                      \/ CountIn(middle[i], toks) > CountIn(middle[j], toks)
                      \/ /\ CountIn(middle[i], toks) = CountIn(middle[j], toks)
                         /\ FirstIn(middle[i], toks) < FirstIn(middle[j], toks)

\* C9 witness: a vocabulary with two tokens of equal count after a more frequent
\* one that occurs later than both
C9_Witness ==
    /\ VocabWritten(subset_name)
    /\ Len(VocabOf(subset_name)) >= 6
    /\ LET vocab == VocabOf(subset_name)
           toks == TokensOfSubset(subset_name)
       IN  /\ CountIn(vocab[3], toks) = CountIn(vocab[4], toks)
           /\ CountIn(vocab[2], toks) > CountIn(vocab[3], toks)
           /\ FirstIn(vocab[2], toks) > FirstIn(vocab[3], toks)

=============================================================================
